---- MODULE Spec2Model ----
(***************************************************************************)
(* MovieVerse API (src/main.py, src/schemas.py): registration and login,   *)
(* bearer-token authentication, admin-gated theatre/show creation and seat *)
(* booking with the handler's find_one / insert conflict check.            *)
(*                                                                         *)
(* Handlers are plain `def` endpoints, which FastAPI runs on a thread      *)
(* pool: a handler is atomic only between two Document Store calls, so a   *)
(* handler that reads and then writes (register, create_booking) is two    *)
(* steps of a worker.  The store is configured (db is not None).           *)
(* Time is counted in minutes.                                             *)
(***************************************************************************)
EXTENDS Integers, Sequences, FiniteSets, TLC

VARIABLES user, booking, review, theatre, show, now, tokens, pc, req, resp

vars == <<user, booking, review, theatre, show, now, tokens, pc, req, resp>>

(***************************************************************************)
(* Bounds of the model.                                                    *)
(***************************************************************************)
MaxUsers == 4
MaxBookings == 2
MaxVenues == 1
MaxReviews == 1

Workers == {"w1", "w2"}

(***************************************************************************)
(* Program constants.                                                      *)
(***************************************************************************)
JWT_SECRET == "devsecret"
ACCESS_TOKEN_EXPIRE_MINUTES == 60 * 24

(* The instants at which the clock is read: around the expiry of a token   *)
(* issued at 0.                                                            *)
Instants == {0, ACCESS_TOKEN_EXPIRE_MINUTES, ACCESS_TOKEN_EXPIRE_MINUTES + 1}

(***************************************************************************)
(* Token Service: PyJWT HS256, with the MAC idealised: a signature is      *)
(* valid for exactly the payload and the key it was computed from.         *)
(***************************************************************************)
Sign(payload, key) == [key |-> key, msg |-> payload]

jwt_encode(payload, key) == [payload |-> payload, signature |-> Sign(payload, key)]

(* jwt.decode with verify_exp switched off. *)
jwt_decode_no_exp(token, key, t) ==
    IF token.signature # Sign(token.payload, key)
    THEN [ok |-> FALSE, payload |-> token.payload]
    ELSE [ok |-> TRUE, payload |-> token.payload]

(* jwt.decode with verify_signature switched off. *)
jwt_decode_no_sig(token, key, t) ==
    IF token.payload.exp <= t
    THEN [ok |-> FALSE, payload |-> token.payload]
    ELSE [ok |-> TRUE, payload |-> token.payload]

(* jwt.decode(token, JWT_SECRET, algorithms=[JWT_ALGO]): InvalidSignature  *)
(* when the signature does not match, ExpiredSignature when exp <= now.    *)
jwt_decode(token, key, t) ==
    IF token.signature # Sign(token.payload, key)
    THEN [ok |-> FALSE, payload |-> token.payload]
    ELSE IF token.payload.exp <= t
         THEN [ok |-> FALSE, payload |-> token.payload]
         ELSE [ok |-> TRUE, payload |-> token.payload]

create_access_token(data, t) ==
    jwt_encode([sub |-> data.sub, email |-> data.email, role |-> data.role,
                exp |-> t + ACCESS_TOKEN_EXPIRE_MINUTES], JWT_SECRET)

(***************************************************************************)
(* Credential Store: bcrypt, idealised: a digest embeds its salt and       *)
(* verifies exactly the password it was computed from.                     *)
(***************************************************************************)
Salts == {"salt1", "salt2"}

bcrypt(password, salt) == [salt |-> salt, of |-> password]

verify_password(plain, hashed) == hashed = bcrypt(plain, hashed.salt)

(***************************************************************************)
(* Authorization header: None (present = FALSE), or a string of `words`    *)
(* whitespace-separated words, the first being `scheme` and the second     *)
(* `token`; the empty string has no words.                                 *)
(***************************************************************************)
NoPayload == [sub |-> "", email |-> "", role |-> "", exp |-> 0]
NoToken == [payload |-> NoPayload, signature |-> Sign(NoPayload, "")]

NoHeader == [present |-> FALSE, words |-> 0, scheme |-> "", token |-> NoToken]
EmptyHeader == [present |-> TRUE, words |-> 0, scheme |-> "", token |-> NoToken]
SchemeOnly(s) == [present |-> TRUE, words |-> 1, scheme |-> s, token |-> NoToken]
Credentials(s, tok) == [present |-> TRUE, words |-> 2, scheme |-> s, token |-> tok]
Trailing(s, tok) == [present |-> TRUE, words |-> 3, scheme |-> s, token |-> tok]

lower(s) ==
    CASE s = "Bearer" -> "bearer"
      [] s = "BEARER" -> "bearer"
      [] s = "Basic" -> "basic"
      [] OTHER -> s

Unauthorized(detail) == [status |-> 401, detail |-> detail, user |-> NoPayload]

(* get_current_user comparing the scheme without lower(). *)
get_current_user_exact_scheme(authorization, t) ==
    IF ~authorization.present \/ authorization.words = 0
    THEN Unauthorized("Missing Authorization header")
    ELSE IF authorization.words # 2
    THEN Unauthorized("Invalid or expired token")
    ELSE IF authorization.scheme # "Bearer"
    THEN Unauthorized("Invalid or expired token")
    ELSE LET d == jwt_decode(authorization.token, JWT_SECRET, t)
         IN  IF d.ok THEN [status |-> 200, detail |-> "", user |-> d.payload]
             ELSE Unauthorized("Invalid or expired token")

(* get_current_user letting a request without a header through. *)
get_current_user_optional(authorization, t) ==
    IF ~authorization.present \/ authorization.words = 0
    THEN [status |-> 200, detail |-> "", user |-> NoPayload]
    ELSE IF authorization.words # 2
    THEN Unauthorized("Invalid or expired token")
    ELSE IF lower(authorization.scheme) # "bearer"
    THEN Unauthorized("Invalid or expired token")
    ELSE LET d == jwt_decode(authorization.token, JWT_SECRET, t)
         IN  IF d.ok THEN [status |-> 200, detail |-> "", user |-> d.payload]
             ELSE Unauthorized("Invalid or expired token")

get_current_user(authorization, t) ==
    IF ~authorization.present \/ authorization.words = 0
    THEN Unauthorized("Missing Authorization header")
    ELSE IF authorization.words # 2
    THEN Unauthorized("Invalid or expired token")
    ELSE IF lower(authorization.scheme) # "bearer"
    THEN Unauthorized("Invalid or expired token")
    ELSE LET d == jwt_decode(authorization.token, JWT_SECRET, t)
         IN  IF d.ok THEN [status |-> 200, detail |-> "", user |-> d.payload]
             ELSE Unauthorized("Invalid or expired token")

(***************************************************************************)
(* Document Store.  A collection is the sequence of its documents in       *)
(* insertion order.                                                        *)
(***************************************************************************)
str(id) == ToString(id)

InsertedId(coll) == Len(coll) + 1

create_document(coll, data) == Append(coll, data @@ [id |-> InsertedId(coll)])

(* {"seats": {"$all": seats}}: the array field holds every one of the values. *)
SeatsIn_all(doc, seats) ==
    \A j \in DOMAIN seats : \E i \in DOMAIN doc.seats : doc.seats[i] = seats[j]

(* {"seats": {"$in": seats}}: the array field holds one of the values.     *)
SeatsIn(doc, seats) ==
    \E i \in DOMAIN doc.seats : \E j \in DOMAIN seats : doc.seats[i] = seats[j]

(* A filter document: every field named equals the value given, except    *)
(* "seats", whose value stands under "$in".                                *)
Matches(doc, query) ==
    \A f \in DOMAIN query :
        IF f = "seats" THEN SeatsIn(doc, query[f]) ELSE doc[f] = query[f]

get_documents(coll, query) == SelectSeq(coll, LAMBDA d : Matches(d, query))

(* The first match, or none. *)
find_one(coll, query) ==
    LET hits == SelectSeq(coll, LAMBDA d : Matches(d, query))
    IN  IF hits = <<>> THEN <<>> ELSE <<hits[1]>>

(***************************************************************************)
(* Schemas (src/schemas.py).                                               *)
(***************************************************************************)
User(name, email, password_hash, role) ==
    [name |-> name, email |-> email, password_hash |-> password_hash,
     role |-> role, is_active |-> TRUE]

(* A Booking whose payment_status defaults to "paid". *)
Booking_paid(user_id, show_id, seats, amount) ==
    [user_id |-> user_id, show_id |-> show_id, seats |-> seats,
     amount |-> amount, payment_status |-> "paid", payment_provider |-> "None"]

Booking(user_id, show_id, seats, amount) ==
    [user_id |-> user_id, show_id |-> show_id, seats |-> seats,
     amount |-> amount, payment_status |-> "pending", payment_provider |-> "None"]

Review(movie_id, user_id, rating, comment) ==
    [movie_id |-> movie_id, user_id |-> user_id, rating |-> rating,
     comment |-> comment, created_at |-> "None"]

(* rating: int = Field(..., ge=1, le=5) *)
ReviewValid(p) == p.rating >= 1 /\ p.rating <= 5

Theatre(name, city) == [name |-> name, city |-> city, address |-> "None"]

ShowValid(p) == p.price >= 0 /\ p.seats_total >= 1 /\ p.seats_total <= 300

(***************************************************************************)
(* Requests and responses.  resp is the response sent last; it is cleared  *)
(* while a handler is between its two Document Store calls.                *)
(***************************************************************************)
NoBody == [none |-> TRUE]
NoReq == [op |-> "none", authorization |-> NoHeader, payload |-> NoBody,
          user |-> NoPayload]
NoResp == [op |-> "none", authorization |-> NoHeader, payload |-> NoBody,
           user |-> NoPayload, status |-> 0, content |-> NoBody]

(* user: what Depends(get_current_user) handed to the handler, if anything. *)
Response(op, authorization, payload, principal, status, content) ==
    [op |-> op, authorization |-> authorization, payload |-> payload,
     user |-> principal, status |-> status, content |-> content]

HTTPException(op, authorization, payload, principal, status, detail) ==
    Response(op, authorization, payload, principal, status, [detail |-> detail])

TokenResponse(token) == [access_token |-> token, token_type |-> "bearer"]

(* payload.email.split("@")[0] *)
LocalPart(email) ==
    CASE email = "root@x" -> "root"
      [] email = "ann@x" -> "ann"
      [] email = "bob@x" -> "bob"
      [] OTHER -> email

(* d["_id"] = str(d["_id"]) *)
Stringify(docs) == [i \in DOMAIN docs |-> [docs[i] EXCEPT !.id = str(docs[i].id)]]

(***************************************************************************)
(* The store when the process starts: the administrator's account and one  *)
(* customer's, both created earlier; no booking, theatre or show.          *)
(***************************************************************************)
Init ==
    /\ user = << User("root", "root@x", bcrypt("p2", "salt1"), "admin") @@ [id |-> 1],
                 User("ann", "ann@x", bcrypt("p1", "salt2"), "user") @@ [id |-> 2] >>
    /\ booking = <<>>
    /\ review = <<>>
    /\ theatre = <<>>
    /\ show = <<>>
    /\ now = 0
    /\ tokens = {}
    /\ pc = [w \in Workers |-> "idle"]
    /\ req = [w \in Workers |-> NoReq]
    /\ resp = NoResp

(* The lookup filtering on the password as well as on the email. *)
existing_user_same_password(p) ==
    LET found == find_one(user, [email |-> p.email])
    IN  IF found # <<>> /\ verify_password(p.password, found[1].password_hash)
        THEN found ELSE <<>>

(* db["user"].find_one({"email": payload.email}) *)
existing_user(p) == find_one(user, [email |-> p.email])

(* The conflict lookup counting only bookings that still await payment. *)
taken_booking_pending_only(p) ==
    find_one(booking, [show_id |-> p.show_id, seats |-> p.seats,
                       payment_status |-> "pending"])

(* The conflict lookup matching only bookings of the same amount. *)
taken_booking_same_amount(p) ==
    find_one(booking, [show_id |-> p.show_id, seats |-> p.seats, amount |-> p.amount])

(* The conflict lookup without the show_id condition. *)
taken_booking_any_show(p) == find_one(booking, [seats |-> p.seats])

(* db["booking"].find_one({"show_id": ..., "seats": {"$in": payload.seats}}) *)
taken_booking(p) == find_one(booking, [show_id |-> p.show_id, seats |-> p.seats])

(* The role check left out. *)
not_admin_never(principal) == FALSE

(* user.get("role") != "admin" *)
not_admin(principal) == principal.role # "admin"

(* get_documents("booking", {}) *)
bookings_of_anyone(principal) == get_documents(booking, <<>>)

(* get_documents("booking", {"user_id": user["sub"]}) *)
bookings_of(principal) == get_documents(booking, [user_id |-> principal.sub])

InFlight(op) == Cardinality({w \in Workers : pc[w] = op})

(***************************************************************************)
(* POST /auth/register                                                     *)
(***************************************************************************)
register(w, p) ==
    /\ pc[w] = "idle"
    /\ LET existing == existing_user(p)
       IN  IF existing # <<>>
           THEN /\ resp' = HTTPException("register", NoHeader, p, NoPayload, 400,
                                        "Email already registered")
                /\ UNCHANGED <<pc, req>>
           ELSE /\ Len(user) + InFlight("register_insert") < MaxUsers
                /\ pc' = [pc EXCEPT ![w] = "register_insert"]
                /\ req' = [req EXCEPT ![w] = [op |-> "register", authorization |-> NoHeader,
                                              payload |-> p, user |-> NoPayload]]
                /\ resp' = NoResp
    /\ UNCHANGED <<user, booking, review, theatre, show, now, tokens>>

(* register writing role="admin" into the document and the token. *)
register_insert_admin(w) ==
    /\ pc[w] = "register_insert"
    /\ \E salt \in Salts :
         LET p == req[w].payload
             user_doc == User(IF p.name # "" THEN p.name ELSE LocalPart(p.email),
                              p.email, bcrypt(p.password, salt), "admin")
             user_id == str(InsertedId(user))
             token == create_access_token([sub |-> user_id, email |-> p.email,
                                           role |-> "admin"], now)
         IN  /\ user' = create_document(user, user_doc)
             /\ tokens' = {token}
             /\ resp' = Response("register", NoHeader, p, NoPayload, 200, TokenResponse(token))
    /\ pc' = [pc EXCEPT ![w] = "idle"]
    /\ req' = [req EXCEPT ![w] = NoReq]
    /\ UNCHANGED <<booking, review, theatre, show, now>>

register_insert(w) ==
    /\ pc[w] = "register_insert"
    /\ \E salt \in Salts :
         LET p == req[w].payload
             user_doc == User(IF p.name # "" THEN p.name ELSE LocalPart(p.email),
                              p.email, bcrypt(p.password, salt), "user")
             user_id == str(InsertedId(user))
             token == create_access_token([sub |-> user_id, email |-> p.email,
                                           role |-> "user"], now)
         IN  /\ user' = create_document(user, user_doc)
             /\ tokens' = {token}
             /\ resp' = Response("register", NoHeader, p, NoPayload, 200, TokenResponse(token))
    /\ pc' = [pc EXCEPT ![w] = "idle"]
    /\ req' = [req EXCEPT ![w] = NoReq]
    /\ UNCHANGED <<booking, review, theatre, show, now>>

(***************************************************************************)
(* POST /auth/login                                                        *)
(***************************************************************************)
login(w, p) ==
    /\ pc[w] = "idle"
    /\ LET found == existing_user(p)
       IN  IF found = <<>>
           THEN /\ resp' = HTTPException("login", NoHeader, p, NoPayload, 400, "Invalid credentials")
                /\ UNCHANGED tokens
           ELSE IF ~verify_password(p.password, found[1].password_hash)
           THEN /\ resp' = HTTPException("login", NoHeader, p, NoPayload, 400, "Invalid credentials")
                /\ UNCHANGED tokens
           ELSE LET doc == found[1]
                    token == create_access_token([sub |-> str(doc.id), email |-> doc.email,
                                                  role |-> doc.role], now)
                IN  /\ tokens' = {token}
                    /\ resp' = Response("login", NoHeader, p, NoPayload, 200, TokenResponse(token))
    /\ UNCHANGED <<user, booking, review, theatre, show, now, pc, req>>

(***************************************************************************)
(* POST /reviews                                                           *)
(***************************************************************************)
add_review(w, authorization, p) ==
    /\ pc[w] = "idle"
    /\ LET auth == get_current_user(authorization, now)
       IN  IF auth.status # 200
           THEN /\ resp' = HTTPException("add_review", authorization, p, auth.user,
                                        auth.status, auth.detail)
                /\ UNCHANGED review
           ELSE IF ~ReviewValid(p)
           THEN /\ resp' = HTTPException("add_review", authorization, p, auth.user, 500,
                                        "Internal Server Error")
                /\ UNCHANGED review
           ELSE /\ Len(review) < MaxReviews
                /\ review' = create_document(review, Review(p.movie_id, auth.user.sub,
                                                            p.rating, p.comment))
                /\ resp' = Response("add_review", authorization, p, auth.user, 200,
                                    [id |-> str(InsertedId(review))])
    /\ UNCHANGED <<user, booking, theatre, show, now, tokens, pc, req>>

(***************************************************************************)
(* POST /theatres, POST /shows                                             *)
(***************************************************************************)
create_theatre(w, authorization, p) ==
    /\ pc[w] = "idle"
    /\ LET auth == get_current_user(authorization, now)
       IN  IF auth.status # 200
           THEN /\ resp' = HTTPException("create_theatre", authorization, p, auth.user,
                                        auth.status, auth.detail)
                /\ UNCHANGED theatre
           ELSE IF not_admin(auth.user)
           THEN /\ resp' = HTTPException("create_theatre", authorization, p, auth.user, 403,
                                        "Admin only")
                /\ UNCHANGED theatre
           ELSE /\ Len(theatre) < MaxVenues
                /\ theatre' = create_document(theatre, Theatre(p.name, p.city))
                /\ resp' = Response("create_theatre", authorization, p, auth.user, 200,
                                    [id |-> str(InsertedId(theatre))])
    /\ UNCHANGED <<user, booking, review, show, now, tokens, pc, req>>

create_show(w, authorization, p) ==
    /\ pc[w] = "idle"
    /\ LET auth == get_current_user(authorization, now)
       IN  IF auth.status # 200
           THEN /\ resp' = HTTPException("create_show", authorization, p, auth.user,
                                        auth.status, auth.detail)
                /\ UNCHANGED show
           ELSE IF not_admin(auth.user)
           THEN /\ resp' = HTTPException("create_show", authorization, p, auth.user, 403,
                                        "Admin only")
                /\ UNCHANGED show
           ELSE IF ~ShowValid(p)
           THEN /\ resp' = HTTPException("create_show", authorization, p, auth.user, 500,
                                        "Internal Server Error")
                /\ UNCHANGED show
           ELSE /\ Len(show) < MaxVenues
                /\ show' = create_document(show, p)
                /\ resp' = Response("create_show", authorization, p, auth.user, 200,
                                    [id |-> str(InsertedId(show))])
    /\ UNCHANGED <<user, booking, review, theatre, now, tokens, pc, req>>

(***************************************************************************)
(* POST /bookings, GET /bookings/me                                        *)
(***************************************************************************)
create_booking(w, authorization, p) ==
    /\ pc[w] = "idle"
    /\ LET auth == get_current_user(authorization, now)
           taken == taken_booking(p)
       IN  IF auth.status # 200
           THEN /\ resp' = HTTPException("create_booking", authorization, p, auth.user,
                                        auth.status, auth.detail)
                /\ UNCHANGED <<pc, req>>
           ELSE IF taken # <<>>
           THEN /\ resp' = HTTPException("create_booking", authorization, p, auth.user, 400,
                                        "Some seats already booked")
                /\ UNCHANGED <<pc, req>>
           ELSE /\ Len(booking) + InFlight("create_booking_insert") < MaxBookings
                /\ pc' = [pc EXCEPT ![w] = "create_booking_insert"]
                /\ req' = [req EXCEPT ![w] = [op |-> "create_booking",
                                              authorization |-> authorization,
                                              payload |-> p, user |-> auth.user]]
                /\ resp' = NoResp
    /\ UNCHANGED <<user, booking, review, theatre, show, now, tokens>>

create_booking_insert(w) ==
    /\ pc[w] = "create_booking_insert"
    /\ LET p == req[w].payload
           doc == Booking(req[w].user.sub, p.show_id, p.seats, p.amount)
       IN  /\ booking' = create_document(booking, doc)
           /\ resp' = Response("create_booking", req[w].authorization, p, req[w].user, 200,
                               [id |-> str(InsertedId(booking)),
                                status |-> "pending_payment"])
    /\ pc' = [pc EXCEPT ![w] = "idle"]
    /\ req' = [req EXCEPT ![w] = NoReq]
    /\ UNCHANGED <<user, review, theatre, show, now, tokens>>

my_bookings(w, authorization) ==
    /\ pc[w] = "idle"
    /\ LET auth == get_current_user(authorization, now)
       IN  IF auth.status # 200
           THEN resp' = HTTPException("my_bookings", authorization, NoBody, auth.user,
                                      auth.status, auth.detail)
           ELSE LET docs == bookings_of(auth.user)
                IN  resp' = Response("my_bookings", authorization, NoBody, auth.user, 200,
                                     [items |-> Stringify(docs)])
    /\ UNCHANGED <<user, booking, review, theatre, show, now, tokens, pc, req>>

(* The payment collaborator settles a booking that awaits payment. *)
settle_payment(i, status) ==
    /\ i \in DOMAIN booking
    /\ booking[i].payment_status = "pending"
    /\ booking' = [booking EXCEPT ![i].payment_status = status]
    /\ UNCHANGED <<user, review, theatre, show, now, tokens, pc, req, resp>>

(* The clock advances. *)
Tick ==
    /\ \E t \in Instants : t > now /\ now' = t
    /\ UNCHANGED <<user, booking, review, theatre, show, tokens, pc, req, resp>>

(***************************************************************************)
(* Inputs.                                                                 *)
(***************************************************************************)
Emails == {"root@x", "ann@x", "bob@x"}
Passwords == {"p1", "p2"}
Names == {"", "Bob"}
AuthPayloads == [email : Emails, password : Passwords, name : Names]
LoginPayloads == [email : Emails, password : Passwords, name : {""}]
(* The credentials of the two stored users. *)
GuardLogins == {[email |-> "ann@x", password |-> "p1", name |-> ""],
                [email |-> "root@x", password |-> "p2", name |-> ""]}

TheatrePayloads == {[name |-> "Rex", city |-> "Pune"]}
ShowPayloads == {[theatre_id |-> "1", movie_id |-> 7, show_time |-> 0,
                  price |-> pr, seats_total |-> 80] : pr \in {-1, 10}}

ReviewPayloads == {[movie_id |-> 7, rating |-> r, comment |-> "None"] : r \in {5, 6}}

ShowIds == {"s1", "s2"}
SeatLists == {<<>>, <<"A1", "A2">>, <<"A2", "A3">>, <<"A3">>, <<"A1", "A1">>}
Amounts == {10, 20}
(* Every seat list on s1 and two on s2 at amount 10; two seat lists on s1
   at the other amount as well. *)
BookingPayloads ==
    {p \in [show_id : ShowIds, seats : SeatLists, amount : Amounts] :
        /\ p.show_id = "s2" => p.seats \in {<<"A2", "A3">>, <<"A3">>}
        /\ p.amount # 10 => (p.show_id = "s1" /\ p.seats \in {<<"A1", "A2">>, <<"A3">>})}

(* What a client can put after "Bearer": the token it was issued, or that  *)
(* token with its payload edited, or re-signed with a key of its own.      *)
Tampered(tok) ==
    [tok EXCEPT !.payload.role = IF @ = "admin" THEN "user" ELSE "admin"]
Extended(tok) ==
    [tok EXCEPT !.payload.exp = @ + ACCESS_TOKEN_EXPIRE_MINUTES]
Resigned(tok) == jwt_encode(tok.payload, "attacker")
Presented == tokens \cup {Tampered(tok) : tok \in tokens}
                    \cup {Extended(tok) : tok \in tokens}
                    \cup {Resigned(tok) : tok \in tokens}

AuthHeaders ==
    {NoHeader, EmptyHeader, SchemeOnly("Bearer")}
    \cup {Credentials(s, tok) : s \in {"Bearer", "bearer", "Basic"}, tok \in tokens}
    \cup {Credentials("Bearer", tok) : tok \in Presented}
    \cup {Trailing("Bearer", tok) : tok \in tokens}

BookingHeaders == {NoHeader} \cup {Credentials("Bearer", tok) : tok \in tokens}

(***************************************************************************)
(* SpecAuth: one request at a time; registration, login, the clock and     *)
(* the protected operations under every kind of Authorization header.      *)
(***************************************************************************)
NextAuth ==
    \/ \E p \in AuthPayloads : register("w1", p)
    \/ register_insert("w1")
    \/ \E p \in LoginPayloads : login("w1", p)
    \/ \E h \in AuthHeaders, p \in TheatrePayloads : create_theatre("w1", h, p)
    \/ \E h \in AuthHeaders, p \in ShowPayloads : create_show("w1", h, p)
    \/ \E h \in AuthHeaders : my_bookings("w1", h)
    \/ Tick

SpecAuth == Init /\ [][NextAuth]_vars

(***************************************************************************)
(* SpecBooking: one request at a time; the booking engine under every      *)
(* booking payload, by the principals that log in.                         *)
(***************************************************************************)
NextBooking ==
    \/ \E p \in GuardLogins : login("w1", p)
    \/ \E h \in BookingHeaders, p \in BookingPayloads : create_booking("w1", h, p)
    \/ create_booking_insert("w1")
    \/ \E h \in BookingHeaders : my_bookings("w1", h)

SpecBooking == Init /\ [][NextBooking]_vars

(***************************************************************************)
(* Spec: the workers of the thread pool run handlers concurrently.         *)
(***************************************************************************)
RaceRegistrations == {[email |-> "bob@x", password |-> pw, name |-> ""] : pw \in Passwords}
RaceLogins == {[email |-> "ann@x", password |-> "p1", name |-> ""],
               [email |-> "root@x", password |-> "p2", name |-> ""],
               [email |-> "bob@x", password |-> "p2", name |-> ""]}
RaceBookings == {[show_id |-> "s1", seats |-> s, amount |-> 10] :
                     s \in {<<"A1", "A2">>, <<"A2", "A3">>}}

Next ==
    \E w \in Workers :
        \/ \E p \in RaceRegistrations : register(w, p)
        \/ register_insert(w)
        \/ \E p \in RaceLogins : login(w, p)
        \/ \E h \in BookingHeaders, p \in RaceBookings : create_booking(w, h, p)
        \/ create_booking_insert(w)
        \/ \E h \in BookingHeaders : my_bookings(w, h)

Spec == Init /\ [][Next]_vars

(***************************************************************************)
(* SpecGuard: one request at a time; every protected operation under every *)
(* kind of Authorization header, by the stored users, while time passes.   *)
(***************************************************************************)
GuardHeaders ==
    {NoHeader, SchemeOnly("Bearer")} \cup {Credentials("Bearer", tok) : tok \in Presented}

GuardReviews == {p \in ReviewPayloads : ReviewValid(p)}
GuardShows == {p \in ShowPayloads : ShowValid(p)}

NextGuard ==
    \/ \E p \in GuardLogins : login("w1", p)
    \/ \E h \in GuardHeaders, p \in RaceBookings : create_booking("w1", h, p)
    \/ create_booking_insert("w1")
    \/ \E h \in GuardHeaders : my_bookings("w1", h)
    \/ \E h \in GuardHeaders, p \in GuardReviews : add_review("w1", h, p)
    \/ \E h \in GuardHeaders, p \in TheatrePayloads : create_theatre("w1", h, p)
    \/ \E h \in GuardHeaders, p \in GuardShows : create_show("w1", h, p)
    \/ Tick

SpecGuard == Init /\ [][NextGuard]_vars

(***************************************************************************)
(* SpecPayment: one request at a time; bookings are made and the payment   *)
(* collaborator settles them.                                              *)
(***************************************************************************)
PaymentStatuses == {"paid", "failed"}
PaymentBookings == {[show_id |-> sh, seats |-> s, amount |-> 10] :
                        sh \in ShowIds, s \in {<<"A1", "A2">>, <<"A2", "A3">>, <<"A3">>}}

NextPayment ==
    \/ \E p \in GuardLogins : login("w1", p)
    \/ \E h \in BookingHeaders, p \in PaymentBookings : create_booking("w1", h, p)
    \/ create_booking_insert("w1")
    \/ \E i \in 1..MaxBookings, st \in PaymentStatuses : settle_payment(i, st)

SpecPayment == Init /\ [][NextPayment]_vars

(***************************************************************************)
(* SpecAmount: one request at a time; the administrator creates the show   *)
(* and seats of that show are booked at either amount.                     *)
(***************************************************************************)
AmountBookings == {[show_id |-> "1", seats |-> s, amount |-> a] :
                       s \in {<<"A1", "A2">>, <<"A2", "A3">>, <<"A3">>}, a \in Amounts}

NextAmount ==
    \/ \E p \in GuardLogins : login("w1", p)
    \/ \E h \in BookingHeaders, p \in GuardShows : create_show("w1", h, p)
    \/ \E h \in BookingHeaders, p \in AmountBookings : create_booking("w1", h, p)
    \/ create_booking_insert("w1")

SpecAmount == Init /\ [][NextAmount]_vars

(***************************************************************************)
(* Vocabulary of the properties.                                           *)
(***************************************************************************)
Range(seq) == {seq[i] : i \in DOMAIN seq}

(* Some stored booking of the payload's show holds one of its seats. *)
Contested(coll, p) ==
    \E i \in DOMAIN coll :
        coll[i].show_id = p.show_id /\ Range(coll[i].seats) \cap Range(p.seats) # {}

(* This step sends a response. *)
Answers == resp' # resp /\ resp'.op # "none"

(* This step answers a request that passed authentication. *)
AnswersBooking == Answers /\ resp'.op = "create_booking" /\ resp'.status # 401

(* The collection grew by exactly one document, the others untouched. *)
InsertedOne(coll, coll2) ==
    Len(coll2) = Len(coll) + 1 /\ SubSeq(coll2, 1, Len(coll)) = coll

(* C1: under any interleaving of concurrent create_booking requests, no seat
   label occurs in two different bookings of the same show. *)
C1_NoDoubleBooking ==
    \A i, j \in DOMAIN booking :
        (i # j /\ booking[i].show_id = booking[j].show_id)
            => Range(booking[i].seats) \cap Range(booking[j].seats) = {}

(* C2: requests running one at a time: an authenticated create_booking with
   a non-empty seat list is answered 400 "Some seats already booked" exactly
   when a stored booking of the same show holds one of the requested seats,
   and then stores nothing; otherwise it is answered 200 and stores exactly
   one booking, that of the request. *)
C2_SequentialConflict ==
    [][(AnswersBooking /\ resp'.payload.seats # <<>>) =>
          /\ resp'.status \in {200, 400}
          /\ resp'.status = 400 <=> Contested(booking, resp'.payload)
          /\ resp'.status = 400 =>
                /\ resp'.content.detail = "Some seats already booked"
                /\ booking' = booking
          /\ resp'.status = 200 =>
                /\ InsertedOne(booking, booking')
                /\ booking'[Len(booking')].show_id = resp'.payload.show_id
                /\ booking'[Len(booking')].seats = resp'.payload.seats
                /\ resp'.content.status = "pending_payment"]_vars

(* {A1,A2} is booked on s1 and the request for {A2,A3} has just been refused. *)
C2_Witness ==
    /\ resp.op = "create_booking" /\ resp.status = 400
    /\ resp.payload.show_id = "s1" /\ resp.payload.seats = <<"A2", "A3">>
    /\ \E i \in DOMAIN booking :
          booking[i].show_id = "s1" /\ booking[i].seats = <<"A1", "A2">>
    /\ \E i \in DOMAIN booking : booking[i].show_id = "s2"

(* C3: an authenticated create_booking with an empty seat list is refused
   (InvalidRequest) and no booking without seats is ever stored. *)
C3_EmptySeatsRejected ==
    /\ (resp.op = "create_booking" /\ resp.status # 401 /\ resp.payload.seats = <<>>)
          => resp.status \in {400, 422}
    /\ \A i \in DOMAIN booking : booking[i].seats # <<>>

(* C4: a register request whose email is that of a stored user is answered
   400 "Email already registered" whatever its password and name, carries
   no token, and leaves the user collection and the client's token as they
   were. *)
C4_DuplicateEmail ==
    [][(/\ Answers /\ resp'.op = "register"
        /\ \E i \in DOMAIN user : user[i].email = resp'.payload.email) =>
          /\ resp'.status = 400
          /\ resp'.content = [detail |-> "Email already registered"]
          /\ user' = user
          /\ tokens' = tokens]_vars

(* bob@x registered, then register again with bob@x under another password
   and another name. *)
C4_Witness ==
    /\ resp.op = "register" /\ resp.status = 400
    /\ \E i \in DOMAIN user :
          /\ i > 2
          /\ user[i].email = resp.payload.email
          /\ ~verify_password(resp.payload.password, user[i].password_hash)
          /\ user[i].name # resp.payload.name /\ resp.payload.name # ""

(* C5: an authenticated principal whose token role is not "admin" is
   answered 403 by create_theatre and by create_show, and the theatre and
   show collections stay as they were. *)
C5_AdminOnly ==
    [][(/\ Answers /\ resp'.op \in {"create_theatre", "create_show"}
        /\ resp'.status # 401
        /\ resp'.authorization.token.payload.role # "admin") =>
          /\ resp'.status = 403
          /\ resp'.content = [detail |-> "Admin only"]
          /\ theatre' = theatre
          /\ show' = show]_vars

(* A theatre exists (an administrator created it) and a customer's
   create_show has just been refused. *)
C5_Witness ==
    /\ resp.op = "create_show" /\ resp.status = 403
    /\ resp.user.role = "user" /\ ShowValid(resp.payload)
    /\ Len(theatre) = 1 /\ Len(show) = 0

Protected == {"create_theatre", "create_show", "create_booking", "my_bookings",
              "add_review"}

(* This step answers a protected operation that came with "<scheme> <token>". *)
AnswersToken ==
    Answers /\ resp'.op \in Protected /\ resp'.authorization.present
            /\ resp'.authorization.words = 2

(* C6: the clock never goes back, a token is issued with exp = issue time +
   24h, and a protected operation presented with a token whose exp is
   earlier than the current time answers 401 "Invalid or expired token",
   valid signature or not. *)
C6_ExpiredTokenRejected ==
    [][/\ now' >= now
       /\ tokens' # tokens =>
             \A tok \in tokens' : tok.payload.exp = now + ACCESS_TOKEN_EXPIRE_MINUTES
       /\ (AnswersToken /\ resp'.authorization.token.payload.exp < now) =>
             /\ resp'.status = 401
             /\ resp'.content = [detail |-> "Invalid or expired token"]]_vars

(* The token the service issued, correctly signed, presented after its
   expiry and refused. *)
C6_Witness ==
    /\ resp.op \in Protected /\ resp.status = 401
    /\ resp.authorization.scheme = "Bearer" /\ resp.authorization.words = 2
    /\ resp.authorization.token \in tokens
    /\ resp.authorization.token.signature
          = Sign(resp.authorization.token.payload, JWT_SECRET)
    /\ resp.authorization.token.payload.exp < now

(* C7: a protected operation given "Bearer <token>" with the token the
   service issued, not yet expired, receives exactly the sub, email and role
   written at issue, which are those of a stored user; a token that is not
   an issued one (payload edited, or signed with another key) is answered
   401. *)
C7_RoundTrip ==
    [][AnswersToken =>
          LET tok == resp'.authorization.token
          IN  /\ (/\ resp'.authorization.scheme = "Bearer"
                  /\ tok \in tokens /\ tok.payload.exp > now) =>
                    /\ resp'.status # 401
                    /\ resp'.user.sub = tok.payload.sub
                    /\ resp'.user.email = tok.payload.email
                    /\ resp'.user.role = tok.payload.role
                    /\ \E i \in DOMAIN user :
                          /\ resp'.user.sub = str(user[i].id)
                          /\ resp'.user.email = user[i].email
                          /\ resp'.user.role = user[i].role
              /\ tok \notin tokens => resp'.status = 401]_vars

(* A customer's unexpired token with the role edited to "admin" has just
   been refused by create_theatre. *)
C7_Witness ==
    /\ resp.op = "create_theatre" /\ resp.status = 401
    /\ resp.authorization.scheme = "Bearer" /\ resp.authorization.words = 2
    /\ \E tok \in tokens :
          /\ tok.payload.role = "user" /\ tok.payload.exp > now
          /\ resp.authorization.token = Tampered(tok)

(* C8: my_bookings answers principal u with exactly the stored bookings
   whose user_id is u's sub, each once and as stored, and changes nothing;
   and a booking is stored under the sub of the principal that created it. *)
C8_OwnBookingsOnly ==
    [][/\ (Answers /\ resp'.op = "my_bookings" /\ resp'.status = 200) =>
             LET items == resp'.content.items
                 owned == {i \in DOMAIN booking : booking[i].user_id = resp'.user.sub}
             IN  /\ resp'.user.sub = resp'.authorization.token.payload.sub
                 /\ \A k \in DOMAIN items : items[k].user_id = resp'.user.sub
                 /\ \A k \in DOMAIN items : \E i \in owned :
                        items[k] = [booking[i] EXCEPT !.id = str(booking[i].id)]
                 /\ \A i \in owned : \E k \in DOMAIN items :
                        items[k].id = str(booking[i].id)
                 /\ Len(items) = Cardinality(owned)
                 /\ booking' = booking
       /\ booking' # booking =>
             /\ InsertedOne(booking, booking')
             /\ resp'.op = "create_booking"
             /\ booking'[Len(booking')].user_id = resp'.authorization.token.payload.sub]_vars

(* Two principals hold a booking each, and one of them has just listed its
   own. *)
C8_Witness ==
    /\ resp.op = "my_bookings" /\ resp.status = 200
    /\ Len(resp.content.items) = 1 /\ Len(booking) = 2
    /\ \E i \in DOMAIN booking : booking[i].user_id # resp.user.sub

(* C9: a register answered 200 has inserted exactly one user, with role
   "user" and the registered email, and returns a token that decodes to
   role "user", that email, and the id of the user just inserted. *)
C9_RegisterIssuesUserToken ==
    [][(Answers /\ resp'.op = "register" /\ resp'.status = 200) =>
          LET fresh == user'[Len(user')]
              who == get_current_user(Credentials("Bearer", resp'.content.access_token), now)
          IN  /\ InsertedOne(user, user')
              /\ fresh.role = "user"
              /\ fresh.email = resp'.payload.email
              /\ \A i \in DOMAIN user : user[i].id # fresh.id
              /\ who.status = 200
              /\ who.user.role = "user"
              /\ who.user.email = resp'.payload.email
              /\ who.user.sub = str(fresh.id)]_vars

(* bob@x has just registered and holds the token of user 3. *)
C9_Witness ==
    /\ resp.op = "register" /\ resp.status = 200
    /\ Len(user) = 3 /\ user[3].email = "bob@x" /\ user[3].role = "user"
    /\ resp.content.access_token.payload.sub = "3"
    /\ resp.content.access_token \in tokens

MissingCredentials == [detail |-> "Missing Authorization header"]
InvalidToken == [detail |-> "Invalid or expired token"]

(* The header reads "Bearer <token>". *)
WellFormed(h) == h.present /\ h.words = 2 /\ h.scheme = "Bearer"

(* The header reads "<bearer, in any case> <token>". *)
BearerForm(h) == h.present /\ h.words = 2 /\ h.scheme \in {"Bearer", "bearer", "BEARER"}

(* The token is the one issued, and not expired. *)
ValidAt(tok, t) == tok \in tokens /\ tok.payload.exp > t

(* C10 as stated: an absent header fails with MissingCredentials; a header
   whose scheme is not exactly "Bearer" or that carries no token fails with
   MalformedCredentials, a failure of its own; a well-formed header with a
   bad or expired token fails with InvalidToken; only a well-formed header
   with a valid token yields a principal. *)
C10_DistinguishedFailures ==
    [][(Answers /\ resp'.op \in Protected) =>
          LET h == resp'.authorization
          IN  /\ ~h.present =>
                    resp'.status = 401 /\ resp'.content = MissingCredentials
              /\ (h.present /\ ~WellFormed(h)) =>
                    /\ resp'.status = 401
                    /\ resp'.content \notin {MissingCredentials, InvalidToken}
              /\ (WellFormed(h) /\ ~ValidAt(h.token, now)) =>
                    resp'.status = 401 /\ resp'.content = InvalidToken
              /\ resp'.status # 401 <=> (WellFormed(h) /\ ValidAt(h.token, now))]_vars

(* C10, amended: an absent or empty header is answered 401 "Missing
   Authorization header"; every other header that is not "<bearer, in any
   case> <valid unexpired token>" is answered the one 401 "Invalid or
   expired token", malformed or not; and exactly the headers of that form
   yield a principal, the token's. *)
C10_AuthenticateOutcomes ==
    [][(Answers /\ resp'.op \in Protected) =>
          LET h == resp'.authorization
              accepted == BearerForm(h) /\ ValidAt(h.token, now)
          IN  /\ (~h.present \/ h.words = 0) =>
                    resp'.status = 401 /\ resp'.content = MissingCredentials
              /\ (h.present /\ h.words > 0 /\ ~accepted) =>
                    resp'.status = 401 /\ resp'.content = InvalidToken
              /\ accepted => resp'.status # 401 /\ resp'.user = h.token.payload
              /\ resp'.status = 401 => resp'.user = NoPayload]_vars

(* "bearer <token>", in lower case, has just been accepted. *)
C10_Witness ==
    /\ resp.op \in Protected /\ resp.status = 200
    /\ resp.authorization.scheme = "bearer"
    /\ resp.authorization.token \in tokens
    /\ resp.user = resp.authorization.token.payload
(* The seat labels a message text spells out.  The texts are opaque strings:
   a text names a label only by being it, and none of the details the
   handlers send is a seat label. *)
LabelsIn(text) == IF text \in UNION {Range(l) : l \in SeatLists} THEN {text} ELSE {}

Holders(p) ==
    {i \in DOMAIN user :
        user[i].email = p.email /\ user[i].password_hash.of = p.password}

(* C12: login answers 200 with a token exactly when a stored user has the
   given email and a password_hash of the given password; the token's sub,
   email and role are that user's and the token verifies; otherwise login
   answers 400 "Invalid credentials"; the user collection is unchanged
   either way. *)
C12_Login ==
    [][(Answers /\ resp'.op = "login") =>
          /\ user' = user
          /\ resp'.status \in {200, 400}
          /\ resp'.status = 200 <=> Holders(resp'.payload) # {}
          /\ resp'.status = 400 => resp'.content = [detail |-> "Invalid credentials"]
          /\ resp'.status = 200 =>
                LET tok == resp'.content.access_token
                IN  /\ resp'.content.token_type = "bearer"
                    /\ jwt_decode(tok, JWT_SECRET, now).ok
                    /\ \E i \in Holders(resp'.payload) :
                          /\ tok.payload.sub = str(user[i].id)
                          /\ tok.payload.email = user[i].email
                          /\ tok.payload.role = user[i].role]_vars

(* C13: in every reachable state, whatever the interleaving of concurrent
   register requests, no two stored users have the same email. *)
C13_UniqueEmail ==
    \A i, j \in DOMAIN user : user[i].email = user[j].email => i = j

(* The header carries, in bearer form, a token the service issued that has
   not expired at t. *)
Authentic(h, t) == BearerForm(h) /\ ValidAt(h.token, t)

(* C14: a protected operation received with a missing, malformed, tampered
   or expired token is answered 401 in the step that receives it, and that
   step leaves the user, booking, review, theatre and show collections as
   they were and starts no insert; an insert is only ever in flight for a
   request whose token was authentic when it was received. *)
C14_GuardFirst ==
    [][/\ (/\ Answers /\ resp'.op \in Protected
            /\ \A w \in Workers : pc[w] = "idle"
            /\ ~Authentic(resp'.authorization, now)) =>
              /\ resp'.status = 401
              /\ <<user, booking, review, theatre, show>>' =
                    <<user, booking, review, theatre, show>>
              /\ pc' = pc
       /\ \A w \in Workers :
            (pc[w] = "idle" /\ pc'[w] # "idle") =>
                /\ pc'[w] = "create_booking_insert"
                /\ Authentic(req'[w].authorization, now)
       /\ booking' # booking => \E w \in Workers : pc[w] = "create_booking_insert"]_vars

(* A review and a booking are stored, and add_review has just been refused
   a token whose role was edited after signing. *)
C14_Witness ==
    /\ resp.op = "add_review" /\ resp.status = 401
    /\ resp.authorization.token.payload.role = "admin"
    /\ resp.authorization.token.signature.msg.role = "user"
    /\ Len(review) = 1 /\ Len(booking) >= 1

(* Stored booking i is on the show of payload p and holds one of its seats. *)
Blocks(i, p) ==
    booking[i].show_id = p.show_id /\ Range(booking[i].seats) \cap Range(p.seats) # {}

(* C15: whatever the payment_status of a stored booking - pending, or paid
   or failed after the payment collaborator settled it - an authenticated
   create_booking for the same show and one of its seats is answered 400
   "Some seats already booked" and stores nothing. *)
C15_StatusBlind ==
    [][\A st \in PaymentStatuses \cup {"pending"} :
          (/\ AnswersBooking
           /\ \E i \in DOMAIN booking :
                 booking[i].payment_status = st /\ Blocks(i, resp'.payload)) =>
              /\ resp'.status = 400
              /\ resp'.content = [detail |-> "Some seats already booked"]
              /\ booking' = booking]_vars

(* The only booking of s1 holds {A1,A2} and its payment failed; a request
   for {A2,A3} on s1 has just been refused. *)
C15_Witness ==
    /\ resp.op = "create_booking" /\ resp.status = 400
    /\ resp.payload.show_id = "s1" /\ resp.payload.seats = <<"A2", "A3">>
    /\ \E i \in DOMAIN booking :
          /\ booking[i].show_id = "s1" /\ booking[i].seats = <<"A1", "A2">>
          /\ booking[i].payment_status = "failed"
          /\ \A j \in DOMAIN booking : booking[j].show_id = "s1" => j = i

(* C16: the booking collection changes only by a create_booking answered
   200 appending one document: its payment_status is "pending", its user_id
   the sub of the token presented, its show_id, seats (in the order given)
   and amount those of the request; the bookings stored before stay as they
   were, and a create_booking answered otherwise changes nothing. *)
C16_InsertedBooking ==
    [][/\ booking' # booking =>
            /\ InsertedOne(booking, booking')
            /\ resp'.op = "create_booking" /\ resp'.status = 200
            /\ LET b == booking'[Len(booking')]
               IN  /\ b.payment_status = "pending"
                   /\ b.user_id = resp'.authorization.token.payload.sub
                   /\ b.show_id = resp'.payload.show_id
                   /\ b.seats = resp'.payload.seats
                   /\ b.amount = resp'.payload.amount
                   /\ resp'.content.id = str(b.id)
       /\ (Answers /\ resp'.op = "create_booking" /\ resp'.status # 200) =>
            booking' = booking]_vars

(* ann's booking of {A2,A3} on s2 is stored as it was made, and root's
   booking of {A1,A2} on s1 at amount 20 has just been stored after it. *)
C16_Witness ==
    /\ resp.op = "create_booking" /\ resp.status = 200
    /\ resp.payload = [show_id |-> "s1", seats |-> <<"A1", "A2">>, amount |-> 20]
    /\ Len(booking) = 2
    /\ booking[1].user_id = "2" /\ booking[1].show_id = "s2"
    /\ booking[1].seats = <<"A2", "A3">> /\ booking[1].amount = 10
    /\ booking[2].user_id = "1" /\ booking[2].amount = 20
    /\ booking[2].payment_status = "pending"

(* C17: the seat list of every stored booking holds pairwise distinct
   labels: no booking is stored that holds the same label twice. *)
C17_DistinctSeats ==
    \A i \in DOMAIN booking :
        \A m, n \in DOMAIN booking[i].seats :
            booking[i].seats[m] = booking[i].seats[n] => m = n

(* The seats held by the stored bookings of a show. *)
BookedSeats(show_id) ==
    UNION {Range(booking[i].seats) : i \in {j \in DOMAIN booking : booking[j].show_id = show_id}}

(* The payload at each amount is decided alike by the conflict lookup. *)
SameAtEveryAmount(p, refused) ==
    \A a \in Amounts : (taken_booking([p EXCEPT !.amount = a]) # <<>>) <=> refused

(* C18: an authenticated create_booking is refused with 400 only when one
   of its seats is held by a stored booking of its show, and goes on to its
   insert, to be answered 200, only when none is; in the store state in
   which it is decided the same request at any other amount is decided the
   same way, so no amount is refused, whatever the price of the show. *)
C18_AmountBlind ==
    [][/\ AnswersBooking => resp'.status \in {200, 400}
       /\ (AnswersBooking /\ resp'.status = 400) =>
            /\ Range(resp'.payload.seats) \cap BookedSeats(resp'.payload.show_id) # {}
            /\ SameAtEveryAmount(resp'.payload, TRUE)
       /\ \A w \in Workers :
            (pc[w] = "idle" /\ pc'[w] = "create_booking_insert") =>
                /\ Range(req'[w].payload.seats)
                      \cap BookedSeats(req'[w].payload.show_id) = {}
                /\ SameAtEveryAmount(req'[w].payload, FALSE)
       /\ (AnswersBooking /\ resp'.status = 200) =>
            \E w \in Workers : pc[w] = "create_booking_insert"
                                /\ req[w].payload = resp'.payload]_vars

(* Show 1 is stored with price 10; {A3} is booked at amount 20 and {A1,A2}
   has just been booked at amount 10: neither is price times seat count. *)
C18_Witness ==
    /\ resp.op = "create_booking" /\ resp.status = 200
    /\ resp.payload = [show_id |-> "1", seats |-> <<"A1", "A2">>, amount |-> 10]
    /\ \E i \in DOMAIN show :
          str(show[i].id) = "1" /\ show[i].price * Len(resp.payload.seats) # 10
    /\ \E i \in DOMAIN booking :
          /\ booking[i].seats = <<"A3">> /\ booking[i].amount = 20
          /\ \E j \in DOMAIN show :
                str(show[j].id) = booking[i].show_id /\ show[j].price # 20

====
